---- MODULE Spec2Model ----
(***************************************************************************)
(* Ranked retrieval engine of backend/src/rag/retriever.py:                *)
(* SemanticRetriever, BM25Retriever, HybridRetriever and the four          *)
(* operations of RankedRetrievalService, over a vector index whose hit     *)
(* list is drawn from small sets.                                          *)
(*                                                                         *)
(* Scores are Python floats in the source.  The model computes them as     *)
(* exact fractions <<numerator, denominator>> in lowest terms, so the      *)
(* rounding of binary floating point is outside the model.                 *)
(***************************************************************************)
EXTENDS Integers, Sequences, FiniteSets, Bags, TLC

VARIABLES
    store,          \* the hit list the vector index holds for the query, in index order
    op,             \* the operation that ran last
    query,          \* its query, a sequence of raw tokens
    top_k,          \* its top_k
    book_id,        \* its book_id (None when not supplied)
    embedding,      \* whether generate_embedding returned a non-empty vector
    weights,        \* <<semantic_weight, keyword_weight>> of the HybridRetriever used
    results,        \* the strategy's list before the book filter
    returned,       \* the list handed back to the caller
    inputs,         \* the records the last stage read, as they are when the call returns
    raised,         \* the collaborator whose exception left the call, or None
    config,         \* <<semantic_weight, keyword_weight>> of retrieval_service.hybrid_retriever
    env,            \* the top_k values callers pass, the ways a collaborator fails,
                    \* the requests a caller repeats, whether search hands back
                    \* the index's own list, and the hit list as it was at first
    earlier,        \* the first call of a repeated request, once it has returned
    tasks,          \* the requests in flight on the event loop, each at an await
    batch,          \* a call of BatchDocumentProcessor.process_documents: its paths,
                    \* its tasks in the order they finished, and what it returned
    cleaner,        \* a call of DocumentProcessor._clean_text: its text and its result
    extractor       \* a call of ContextExtractor: its arguments and its fragments

vars == <<store, op, query, top_k, book_id, embedding, weights, results, returned,
          inputs, raised, config, env, earlier, tasks, batch, cleaner, extractor>>

\* the state of the retrieval service, and the state of the document pipeline
retrieval == <<store, op, query, top_k, book_id, embedding, weights, results, returned,
               inputs, raised, config, env, earlier, tasks>>

documents == <<batch, cleaner, extractor>>

----------------------------------------------------------------------------
(* Bounds of the model *)

MaxHits == 3
MaxTopK == 2

----------------------------------------------------------------------------
(* Exact arithmetic on fractions <<n, d>>, d > 0, in lowest terms *)

Abs(n) == IF n < 0 THEN -n ELSE n

Min(a, b) == IF a < b THEN a ELSE b

Max(a, b) == IF a < b THEN b ELSE a

RECURSIVE GCD(_, _)
GCD(a, b) == IF b = 0 THEN a ELSE GCD(b, a % b)

Frac(n, d) == LET g == GCD(Abs(n), d) IN <<n \div g, d \div g>>

FAdd(a, b) == Frac(a[1] * b[2] + b[1] * a[2], a[2] * b[2])
FSub(a, b) == Frac(a[1] * b[2] - b[1] * a[2], a[2] * b[2])
FMul(a, b) == Frac(a[1] * b[1], a[2] * b[2])
FLess(a, b) == a[1] * b[2] < b[1] * a[2]
FLeq(a, b) == a[1] * b[2] <= b[1] * a[2]

Zero == Frac(0, 1)
One == Frac(1, 1)

----------------------------------------------------------------------------
(* Python values *)

None == "<None>"

\* the test written as "is not None"
TruthyNotNone(s) == s # None

\* the truth value of an Optional[str]: None and "" are false
Truthy(s) == s # None /\ s # ""

\* dict.get(key, default)
Get(d, key, default) == IF key \in DOMAIN d THEN d[key] ELSE default

\* d.copy() followed by d[key] = value
Set(d, key, value) == (key :> value) @@ d

\* list[:n]; a negative n counts from the end
Take(s, n) ==
    IF n >= 0 THEN SubSeq(s, 1, Min(n, Len(s)))
    ELSE SubSeq(s, 1, Max(0, Len(s) + n))

\* str.lower() on one token
Lower(w) ==
    CASE w = "Dragon" -> "dragon"
      [] w = "The" -> "the"
      [] OTHER -> w

\* set(text.lower().split()) of a text held as a bag of raw tokens
WordSet(text) == {Lower(w) : w \in BagToSet(text)}

\* len(text.lower().split())
WordCount(text) == BagCardinality(text)

\* set(query.lower().split()) of a query held as a sequence of raw tokens
QueryWords(q) == {Lower(q[i]) : i \in DOMAIN q}

\* list.sort(key=...) is stable: the permutation that orders the keys, ascending
\* or (reverse=True) descending, equal keys staying in their original order
\* an unstable sort: equal keys come out in reverse order
SortOrderUnstable(keys, reverse) ==
    LET n == Len(keys)
        Before(j, i) ==
            \/ IF reverse THEN FLess(keys[i], keys[j]) ELSE FLess(keys[j], keys[i])
            \/ keys[j] = keys[i] /\ j > i
        Pos(i) == 1 + Cardinality({j \in 1..n : Before(j, i)})
    IN  [k \in 1..n |-> CHOOSE i \in 1..n : Pos(i) = k]

SortOrder(keys, reverse) ==
    LET n == Len(keys)
        Before(j, i) ==
            \/ IF reverse THEN FLess(keys[i], keys[j]) ELSE FLess(keys[j], keys[i])
            \/ keys[j] = keys[i] /\ j < i
        Pos(i) == 1 + Cardinality({j \in 1..n : Before(j, i)})
    IN  [k \in 1..n |-> CHOOSE i \in 1..n : Pos(i) = k]

\* reverse=True done as an ascending sort followed by list.reverse()
SortByThenReverse(s, key, reverse) ==
    LET p == SortOrder([i \in DOMAIN s |-> s[i][key]], FALSE)
        n == Len(s)
    IN  [k \in DOMAIN s |-> IF reverse THEN s[p[n + 1 - k]] ELSE s[p[k]]]

SortBy(s, key, reverse) ==
    LET p == SortOrder([i \in DOMAIN s |-> s[i][key]], reverse)
    IN  [k \in DOMAIN s |-> s[p[k]]]

----------------------------------------------------------------------------
(* The corpus behind the vector index: chunk id -> content and metadata.   *)
(* A text is a bag of raw tokens: the code reads only the set and the      *)
(* number of its words.                                                    *)

CastleText ==
    ("The" :> 1) @@ ("Dragon" :> 1) @@ ("flew" :> 1) @@ ("over" :> 1)
        @@ ("the" :> 1) @@ ("castle" :> 1)

VillageText == ("a" :> 1) @@ ("quiet" :> 1) @@ ("village" :> 1) @@ ("morning" :> 1)

\* a text of n words, two of them "castle" and "moat"
MoatText(n) == ("castle" :> 1) @@ ("moat" :> 1) @@ ("lorem" :> n - 2)

\* a text of n words, one of them "dragon"
PaddedText(n) == ("dragon" :> 1) @@ ("ipsum" :> n - 1)

Chunk(id) ==
    CASE id = 1 -> [content |-> CastleText, metadata |-> [book_id |-> "A"]]
      [] id = 2 -> [content |-> VillageText, metadata |-> [book_id |-> "B"]]
      [] id = 3 -> [content |-> MoatText(20), metadata |-> [book_id |-> "B"]]
      [] id = 4 -> [content |-> PaddedText(501), metadata |-> [section |-> "intro"]]
      [] id = 5 -> [content |-> PaddedText(19), metadata |-> [book_id |-> "A"]]
      [] id = 6 -> [content |-> MoatText(500), metadata |-> [book_id |-> "A"]]

\* the chunks of the general pools, and those around the length thresholds
ChunkIds == 1..4

LengthChunkIds == 3..6

Distances == {Frac(1, 10), Frac(9, 10)}

Queries == {<<>>, <<"Dragon">>, <<"castle", "moat">>}

BookIds == {None, "", "B"}

\* one hit of vector_store.search: {id, content, metadata, distance}
Hit(id, d) ==
    [id |-> id, content |-> Chunk(id).content, metadata |-> Chunk(id).metadata,
     distance |-> d]

\* the hit lists the index may hold: distinct chunks, any order, any distances
HitListsOver(ids, n, ds) ==
    {s \in UNION {[1..m -> {Hit(i, d) : i \in ids, d \in ds}] : m \in 0..n} :
        \A i, j \in DOMAIN s : i # j => s[i].id # s[j].id}

HitLists(ids, n) == HitListsOver(ids, n, Distances)

\* hit lists in which an index may return a chunk more than once
RepeatingHitLists(ids, n) ==
    UNION {[1..m -> {Hit(i, d) : i \in ids, d \in Distances}] : m \in 0..n}

\* the two ends of a distance metric bounded by 1
UnitDistances == {Zero, One}

\* a distance metric that is not bounded by 1: non-negative, as the index promises
FarDistances == {Frac(1, 10), Frac(3, 2)}

\* vector_store.search(query, n_results): at most n_results hits, in index
\* order; none when n_results is not positive, unless the index raises
Search(st, n_results) == Take(st, Max(n_results, 0))

----------------------------------------------------------------------------
(* SemanticRetriever.retrieve *)

\* the hits formatted in index order, line 62 left out
SemanticRetrieveUnsorted(st, q, k, emb) ==
    IF ~emb THEN <<>>
    ELSE LET hits == Search(st, k)
         IN  [i \in DOMAIN hits |->
                [id |-> hits[i].id,
                 content |-> hits[i].content,
                 metadata |-> hits[i].metadata,
                 similarity_score |-> FSub(One, hits[i].distance),
                 rank |-> i]]

\* the index searched whatever generate_embedding returned
SemanticRetrieveUnguarded(st, q, k, emb) ==
    LET hits == SortBy(Search(st, k), "distance", FALSE)
    IN  [i \in DOMAIN hits |->
            [id |-> hits[i].id,
             content |-> hits[i].content,
             metadata |-> hits[i].metadata,
             similarity_score |-> FSub(One, hits[i].distance),
             rank |-> i]]

SemanticRetrieve(st, q, k, emb) ==
    IF ~emb THEN <<>>
    ELSE LET hits == SortBy(Search(st, k), "distance", FALSE)
         IN  [i \in DOMAIN hits |->
                [id |-> hits[i].id,
                 content |-> hits[i].content,
                 metadata |-> hits[i].metadata,
                 similarity_score |-> FSub(One, hits[i].distance),
                 rank |-> i]]

(* BM25Retriever.retrieve *)

\* the words compared as written, lower() left out
TermOverlapAsWritten(q, content) ==
    LET query_words == {q[i] : i \in DOMAIN q}
        overlap == Cardinality(query_words \cap BagToSet(content))
    IN  IF Cardinality(query_words) > 0
        THEN Frac(overlap, Cardinality(query_words))
        ELSE Zero

TermOverlap(q, content) ==
    LET query_words == QueryWords(q)
        overlap == Cardinality(query_words \cap WordSet(content))
    IN  IF Cardinality(query_words) > 0
        THEN Frac(overlap, Cardinality(query_words))
        ELSE Zero

KeywordRetrieve(st, q, k) ==
    LET hits == Search(st, k)
    IN  [i \in DOMAIN hits |->
            [id |-> hits[i].id,
             content |-> hits[i].content,
             metadata |-> hits[i].metadata,
             bm25_score |-> TermOverlap(q, hits[i].content),
             rank |-> i]]

----------------------------------------------------------------------------
(* HybridRetriever.retrieve *)

DefaultWeights == <<Frac(7, 10), Frac(3, 10)>>

\* no id found in result_scores
HasKeyNever(entries, doc_id) == FALSE

\* result_scores, an insertion-ordered dict, as the sequence of its entries
HasKey(entries, doc_id) == \E i \in DOMAIN entries : entries[i].id = doc_id

\* if doc_id not in result_scores: insert; then result_scores[doc_id][field] = score
PutScore(entries, result, field, score) ==
    LET doc_id == result.id
        added ==
            IF HasKey(entries, doc_id) THEN entries
            ELSE Append(entries,
                        [id |-> doc_id, document |-> result,
                         semantic_score |-> Zero, keyword_score |-> Zero])
    IN  [i \in DOMAIN added |->
            IF added[i].id = doc_id THEN [added[i] EXCEPT ![field] = score]
            ELSE added[i]]

\* every score written to semantic_score, whichever loop writes it
RECURSIVE AddScoresOneField(_, _, _, _)
AddScoresOneField(entries, rs, field, scoreKey) ==
    IF rs = <<>> THEN entries
    ELSE AddScoresOneField(PutScore(entries, Head(rs), "semantic_score",
                                    Get(Head(rs), scoreKey, Zero)),
                           Tail(rs), field, scoreKey)

RECURSIVE AddScores(_, _, _, _)
AddScores(entries, rs, field, scoreKey) ==
    IF rs = <<>> THEN entries
    ELSE AddScores(PutScore(entries, Head(rs), field, Get(Head(rs), scoreKey, Zero)),
                   Tail(rs), field, scoreKey)

\* the two scores added without their weights
FuseUnweighted(sw, kw, semantic_score, keyword_score) ==
    FAdd(semantic_score, keyword_score)

\* the weights applied to the wrong scores
FuseSwapped(sw, kw, semantic_score, keyword_score) ==
    FAdd(FMul(kw, semantic_score), FMul(sw, keyword_score))

Fuse(sw, kw, semantic_score, keyword_score) ==
    FAdd(FMul(sw, semantic_score), FMul(kw, keyword_score))

CombinedResults(result_scores, sw, kw) ==
    [i \in DOMAIN result_scores |->
        LET scores == result_scores[i]
        IN  Set(Set(Set(scores.document,
                        "combined_score",
                        Fuse(sw, kw, scores.semantic_score, scores.keyword_score)),
                    "semantic_score", scores.semantic_score),
                "keyword_score", scores.keyword_score)]

\* combined_results cut to top_k before it is sorted
HybridRetrieveCutFirst(st, q, k, emb, sw, kw) ==
    LET semantic_results == SemanticRetrieve(st, q, k * 2, emb)
        keyword_results == KeywordRetrieve(st, q, k * 2)
        result_scores ==
            AddScores(AddScores(<<>>, semantic_results, "semantic_score", "similarity_score"),
                      keyword_results, "keyword_score", "bm25_score")
        combined_results == CombinedResults(result_scores, sw, kw)
    IN  SortBy(Take(combined_results, k), "combined_score", TRUE)

\* combined_results returned whole
HybridRetrieveNoCut(st, q, k, emb, sw, kw) ==
    LET semantic_results == SemanticRetrieve(st, q, k * 2, emb)
        keyword_results == KeywordRetrieve(st, q, k * 2)
        result_scores ==
            AddScores(AddScores(<<>>, semantic_results, "semantic_score", "similarity_score"),
                      keyword_results, "keyword_score", "bm25_score")
        combined_results == CombinedResults(result_scores, sw, kw)
    IN  SortBy(combined_results, "combined_score", TRUE)

\* lines 154-190: the two sub-results merged, fused, sorted and cut
FuseResults(semantic_results, keyword_results, k, sw, kw) ==
    LET result_scores ==
            AddScores(AddScores(<<>>, semantic_results, "semantic_score", "similarity_score"),
                      keyword_results, "keyword_score", "bm25_score")
        combined_results == CombinedResults(result_scores, sw, kw)
    IN  Take(SortBy(combined_results, "combined_score", TRUE), k)

HybridRetrieve(st, q, k, emb, sw, kw) ==
    LET semantic_results == SemanticRetrieve(st, q, k * 2, emb)
        keyword_results == KeywordRetrieve(st, q, k * 2)
    IN  FuseResults(semantic_results, keyword_results, k, sw, kw)

----------------------------------------------------------------------------
(* RankedRetrievalService *)

\* [r for r in results if r.get('metadata', {}).get('book_id') == book_id]
BookOf(result) == Get(Get(result, "metadata", <<>>), "book_id", None)

\* a candidate without a book_id passes the filter
FilterBookLoose(rs, b) ==
    IF Truthy(b) THEN SelectSeq(rs, LAMBDA r : BookOf(r) \in {b, None}) ELSE rs

FilterBook(rs, b) ==
    IF Truthy(b) THEN SelectSeq(rs, LAMBDA r : BookOf(r) = b) ELSE rs

\* the thresholds taken exclusive
LengthScoreExclusive(content) ==
    IF WordCount(content) <= 20 \/ WordCount(content) >= 500 THEN Frac(1, 2) ELSE One

LengthScore(content) ==
    IF WordCount(content) < 20 \/ WordCount(content) > 500 THEN Frac(1, 2) ELSE One

PositionScore == One

PriorScore(result) == Get(result, "combined_score", Get(result, "semantic_score", Zero))

RerankedScore(q, result) ==
    FAdd(FAdd(FAdd(FMul(Frac(5, 10), PriorScore(result)),
                   FMul(Frac(3, 10), TermOverlap(q, result.content))),
              FMul(Frac(1, 10), LengthScore(result.content))),
         FMul(Frac(1, 10), PositionScore))

RerankResults(q, rs) ==
    SortBy([i \in DOMAIN rs |-> Set(rs[i], "reranked_score", RerankedScore(q, rs[i]))],
           "reranked_score", TRUE)

----------------------------------------------------------------------------
(* What a stage leaves of the records it read.  Both stages write their     *)
(* new keys to a copy: result = scores['document'].copy() and               *)
(* reranked_item = result.copy().                                           *)

\* the records of the two sub-results once the fusion has run
FusionInputAfter(semantic_results, keyword_results) == semantic_results \o keyword_results

\* reranked_score written to the item itself
RerankInputInPlace(q, rs) ==
    [i \in DOMAIN rs |-> Set(rs[i], "reranked_score", RerankedScore(q, rs[i]))]

\* the items handed to _rerank_results once it has run
RerankInputAfter(q, rs) == rs

----------------------------------------------------------------------------
(* Exceptions.  retriever.py has no try/except: an exception raised by      *)
(* generate_embedding or by vector_store.search leaves the operation that   *)
(* awaited it.                                                              *)

Faults == {"none", "embedding", "index"}

\* whether the operation awaits the collaborator that fails
Raises(name, emb, fault) ==
    CASE fault = "embedding" -> name # "keyword"
      [] fault = "index" -> name = "semantic" => emb
      [] OTHER -> FALSE

----------------------------------------------------------------------------
(* The state machine: one action per operation.  A caller issues one       *)
(* request at a time and reads its result before the next.  What a single  *)
(* call returns does not depend on whether the list search hands back is   *)
(* the index's own, so here the index keeps its order; the sort in place   *)
(* of line 62 is a step of the concurrent requests further down.           *)

TopKs == 1..MaxTopK

\* no document is being processed
NoBatch == [pc |-> "idle", file_paths |-> <<>>, finished |-> <<>>, processed_results |-> <<>>]

NoText == [pc |-> "idle", text |-> <<>>, cleaned |-> <<>>]

NoExtraction == [pc |-> "idle"]

IdleCaller ==
    /\ op = "idle"
    /\ query = <<>>
    /\ top_k = 1
    /\ book_id = None
    /\ embedding = TRUE
    /\ weights = DefaultWeights
    /\ results = <<>>
    /\ returned = <<>>
    /\ inputs = <<>>
    /\ raised = None
    /\ config = DefaultWeights
    /\ earlier = <<>>
    /\ batch = NoBatch
    /\ cleaner = NoText
    /\ extractor = NoExtraction

\* no request in flight
Idle == IdleCaller /\ tasks = <<>>

\* callers pass a top_k of at least 1 and no collaborator fails
Environment ==
    [top_ks |-> TopKs, faults |-> {"none"}, tracked |-> {}, shared |-> FALSE, pool |-> <<>>]

Init ==
    /\ store \in HitLists(ChunkIds, MaxHits)
    /\ env = Environment
    /\ Idle

InitLength ==
    /\ store \in HitLists(LengthChunkIds, MaxHits)
    /\ env = Environment
    /\ Idle

\* the call's arguments, the strategy's list and the returned list, recorded
Call(name, q, b, k, emb, fault, w, ins, rs, out) ==
    /\ op' = name
    /\ query' = q
    /\ book_id' = b
    /\ top_k' = k
    /\ embedding' = emb
    /\ weights' = w
    /\ IF Raises(name, emb, fault)
       THEN inputs' = <<>> /\ results' = <<>> /\ returned' = <<>> /\ raised' = fault
       ELSE inputs' = ins /\ results' = rs /\ returned' = out /\ raised' = None
    /\ UNCHANGED <<store, env, earlier, tasks, documents>>

RetrieveBySemanticSimilarity ==
    /\ op = "idle"
    /\ UNCHANGED config
    /\ \E q \in Queries, b \in BookIds, k \in env.top_ks, emb \in BOOLEAN,
          fault \in env.faults :
            LET rs == SemanticRetrieve(store, q, k, emb)
            IN  Call("semantic", q, b, k, emb, fault, config, <<>>, rs, FilterBook(rs, b))

RetrieveByKeywordMatching ==
    /\ op = "idle"
    /\ UNCHANGED config
    /\ \E q \in Queries, b \in BookIds, k \in env.top_ks, fault \in env.faults :
            LET rs == KeywordRetrieve(store, q, k)
            IN  Call("keyword", q, b, k, TRUE, fault, config, <<>>, rs, FilterBook(rs, b))

RetrieveHybrid ==
    /\ op = "idle"
    /\ UNCHANGED config
    /\ \E q \in Queries, b \in BookIds, k \in env.top_ks, emb \in BOOLEAN,
          fault \in env.faults :
            LET rs == HybridRetrieve(store, q, k, emb, config[1], config[2])
                ins == FusionInputAfter(SemanticRetrieve(store, q, k * 2, emb),
                                        KeywordRetrieve(store, q, k * 2))
            IN  Call("hybrid", q, b, k, emb, fault, config, ins, rs, FilterBook(rs, b))

\* the reranked list cut to top_k before the book filter
RetrieveWithRerankingCutFirst ==
    /\ op = "idle"
    /\ UNCHANGED config
    /\ \E q \in Queries, b \in BookIds, k \in env.top_ks, emb \in BOOLEAN,
          fault \in env.faults :
            LET initial_results ==
                    HybridRetrieve(store, q, k * 2, emb, config[1], config[2])
                reranked_results == RerankResults(q, Take(initial_results, k))
            IN  Call("rerank", q, b, k, emb, fault, config,
                     RerankInputAfter(q, Take(initial_results, k)), initial_results,
                     FilterBook(reranked_results, b))

RetrieveWithReranking ==
    /\ op = "idle"
    /\ UNCHANGED config
    /\ \E q \in Queries, b \in BookIds, k \in env.top_ks, emb \in BOOLEAN,
          fault \in env.faults :
            LET initial_results ==
                    HybridRetrieve(store, q, k * 2, emb, config[1], config[2])
                filtered == FilterBook(initial_results, b)
                reranked_results == RerankResults(q, filtered)
            IN  Call("rerank", q, b, k, emb, fault, config,
                     RerankInputAfter(q, filtered), initial_results,
                     Take(reranked_results, k))

\* a HybridRetriever constructed with weights at either limit, called directly
WeightChoices == {<<One, Zero>>, <<Zero, One>>}

\* the strategy's weights written to the service's own HybridRetriever
HybridStrategyReconfigures ==
    /\ op = "idle"
    /\ \E q \in Queries, k \in env.top_ks, emb \in BOOLEAN, w \in WeightChoices,
          fault \in env.faults :
            /\ config' = w
            /\ LET rs == HybridRetrieve(store, q, k, emb, w[1], w[2])
                    ins == FusionInputAfter(SemanticRetrieve(store, q, k * 2, emb),
                                            KeywordRetrieve(store, q, k * 2))
               IN  Call("strategy", q, None, k, emb, fault, w, ins, rs, rs)

HybridStrategy ==
    /\ op = "idle"
    /\ UNCHANGED config
    /\ \E q \in Queries, k \in env.top_ks, emb \in BOOLEAN, w \in WeightChoices,
          fault \in env.faults :
            LET rs == HybridRetrieve(store, q, k, emb, w[1], w[2])
                ins == FusionInputAfter(SemanticRetrieve(store, q, k * 2, emb),
                                        KeywordRetrieve(store, q, k * 2))
            IN  Call("strategy", q, None, k, emb, fault, w, ins, rs, rs)

\* the request as the caller made it; a strategy called directly was
\* constructed with its weights
Request ==
    [op |-> op, query |-> query, top_k |-> top_k, book_id |-> book_id,
     embedding |-> embedding,
     weights |-> IF op = "strategy" THEN weights ELSE DefaultWeights]

\* the caller has read the result
Complete ==
    /\ op # "idle"
    /\ op' = "idle"
    /\ query' = <<>>
    /\ top_k' = 1
    /\ book_id' = None
    /\ embedding' = TRUE
    /\ weights' = DefaultWeights
    /\ results' = <<>>
    /\ returned' = <<>>
    /\ inputs' = <<>>
    /\ raised' = None
    /\ earlier' =
            IF earlier = <<>>
            THEN IF Request \in env.tracked
                 THEN <<[request |-> Request, store |-> store, returned |-> returned,
                         between |-> FALSE]>>
                 ELSE earlier
            ELSE IF Request # earlier[1].request
                 THEN <<[earlier[1] EXCEPT !.between = TRUE]>>
                 ELSE earlier
    /\ UNCHANGED <<store, config, env, tasks, documents>>

Next ==
    \/ RetrieveBySemanticSimilarity
    \/ RetrieveByKeywordMatching
    \/ RetrieveHybrid
    \/ RetrieveWithReranking
    \/ HybridStrategy
    \/ Complete

Spec == Init /\ [][Next]_vars

\* the same operations over pools of chunks of 19, 20, 500 and 501 words
SpecLength == InitLength /\ [][Next]_vars

\* the requests a caller makes twice, one of each operation
RepeatedRequests ==
    {[op |-> o, query |-> <<"castle", "moat">>, top_k |-> 1,
      book_id |-> IF o = "strategy" THEN None ELSE "B",
      embedding |-> TRUE,
      weights |-> IF o = "strategy" THEN <<One, Zero>> ELSE DefaultWeights] :
        o \in {"semantic", "keyword", "hybrid", "rerank", "strategy"}}

\* the same operations, the first call of a repeated request remembered
InitRepeat ==
    /\ store \in HitLists({1, 2, 3}, MaxHits)
    /\ env = [Environment EXCEPT !.tracked = RepeatedRequests]
    /\ Idle

SpecRepeat == InitRepeat /\ [][Next]_vars

\* callers that also pass a top_k below 1; the index may raise for any request
InvalidTopKs == {-1, 0}

InitInvalid ==
    /\ store \in HitLists(ChunkIds, MaxHits)
    /\ env = [Environment EXCEPT !.top_ks = InvalidTopKs \cup {1},
                                 !.faults = {"none", "index"}]
    /\ Idle

SpecInvalid == InitInvalid /\ [][Next]_vars

\* the same operations when generate_embedding or vector_store.search may raise
InitFailing ==
    /\ store \in HitLists(ChunkIds, MaxHits)
    /\ env = [Environment EXCEPT !.faults = Faults]
    /\ Idle

SpecFailing == InitFailing /\ [][Next]_vars

\* the same operations over an index that may return a chunk more than once
InitRepeating ==
    /\ store \in RepeatingHitLists({1, 2}, MaxHits)
    /\ env = Environment
    /\ Idle

SpecRepeating == InitRepeating /\ [][Next]_vars

\* the same operations over an index whose distances are 0 or 1
InitUnit ==
    /\ store \in HitListsOver(ChunkIds, MaxHits, UnitDistances)
    /\ env = Environment
    /\ Idle

SpecUnit == InitUnit /\ [][Next]_vars

\* the same operations over an index whose distances may exceed 1
InitFar ==
    /\ store \in HitListsOver(ChunkIds, MaxHits, FarDistances)
    /\ env = Environment
    /\ Idle

SpecFar == InitFar /\ [][Next]_vars

----------------------------------------------------------------------------
(* _rerank_results called on candidates that carry no fused score: the      *)
(* records of SemanticRetriever.retrieve (similarity_score only), those of  *)
(* BM25Retriever.retrieve (bm25_score only), and fused records left with    *)
(* their semantic_score and keyword_score.                                  *)

Without(record, key) == [f \in DOMAIN record \ {key} |-> record[f]]

Candidates(kind, st, q, k, emb) ==
    CASE kind = "semantic" -> SemanticRetrieve(st, q, k, emb)
      [] kind = "keyword" -> KeywordRetrieve(st, q, k)
      [] kind = "scored" ->
            LET rs == HybridRetrieve(st, q, k, emb, DefaultWeights[1], DefaultWeights[2])
            IN  [i \in DOMAIN rs |-> Without(rs[i], "combined_score")]

RerankCandidates ==
    /\ op = "idle"
    /\ UNCHANGED config
    /\ \E q \in Queries, k \in env.top_ks, emb \in BOOLEAN,
          kind \in {"semantic", "keyword", "scored"} :
            LET rs == Candidates(kind, store, q, k, emb)
            IN  Call("reranker", q, None, k, emb, "none", config,
                     RerankInputAfter(q, rs), rs, RerankResults(q, rs))

NextDirect ==
    \/ RerankCandidates
    \/ Complete

SpecDirect == Init /\ [][NextDirect]_vars

----------------------------------------------------------------------------
(* Concurrent requests on the shared service instance.  asyncio runs one    *)
(* coroutine at a time and switches only at an await, so a request takes    *)
(* one step per awaited collaborator call, together with the code that      *)
(* follows it up to the next await.  Whether vector_store.search hands      *)
(* back a list of its own or a new list per call is the index's choice:     *)
(* env.shared.  A result shorter than the index's list is always a new      *)
(* list.                                                                    *)

TaskIds == {1, 2}

IdleTask ==
    [pc |-> "idle", op |-> "idle", query |-> <<>>, top_k |-> 1, embedding |-> TRUE,
     semantic_results |-> <<>>, out |-> <<>>]

InitConcurrent ==
    /\ store \in HitLists({1, 2, 3}, MaxHits)
    /\ \E shared \in BOOLEAN :
            env = [Environment EXCEPT !.shared = shared, !.pool = store]
    /\ IdleCaller
    /\ tasks = [t \in TaskIds |-> IdleTask]

sequential ==
    <<op, query, top_k, book_id, embedding, weights, results, returned,
      inputs, raised, config, env, earlier, batch, cleaner, extractor>>

\* n_results of the searches the operation makes
SearchSize(task) == IF task.op = "hybrid" THEN task.top_k * 2 ELSE task.top_k

\* a request enters its operation and reaches its first await
Begin(t) ==
    /\ tasks[t].pc = "idle"
    /\ \E o \in {"semantic", "keyword", "hybrid"}, k \in env.top_ks :
        \E emb \in IF o = "keyword" THEN {TRUE} ELSE BOOLEAN :
            tasks' = [tasks EXCEPT ![t] =
                        [IdleTask EXCEPT !.pc = IF o = "keyword" THEN "search" ELSE "embed",
                                         !.op = o,
                                         !.query = <<"castle", "moat">>,
                                         !.top_k = k,
                                         !.embedding = emb]]
    /\ UNCHANGED <<store, sequential>>

\* await generate_embedding returns (line 53); an empty embedding ends
\* SemanticRetriever.retrieve
EmbeddingReturns(t) ==
    /\ tasks[t].pc = "embed"
    /\ tasks' = [tasks EXCEPT ![t].pc =
                    IF tasks[t].embedding THEN "semantic_search"
                    ELSE IF tasks[t].op = "semantic" THEN "done" ELSE "search"]
    /\ UNCHANGED <<store, sequential>>

\* results.sort(...) at line 62 sorts the list search handed back
SortInPlace(st, n_results, shared) ==
    IF shared /\ Len(st) <= n_results THEN SortBy(st, "distance", FALSE) ELSE st

\* await vector_store.search returns in SemanticRetriever.retrieve (line 59);
\* lines 62-75 follow without an await
SemanticSearchReturns(t) ==
    /\ tasks[t].pc = "semantic_search"
    /\ LET task == tasks[t]
           rs == SemanticRetrieve(store, task.query, SearchSize(task), TRUE)
       IN  /\ store' = SortInPlace(store, SearchSize(task), env.shared)
           /\ tasks' = [tasks EXCEPT ![t] =
                          IF task.op = "semantic"
                          THEN [task EXCEPT !.pc = "done", !.out = rs]
                          ELSE [task EXCEPT !.pc = "search", !.semantic_results = rs]]
    /\ UNCHANGED sequential

\* await vector_store.search returns in BM25Retriever.retrieve (line 102);
\* lines 105-120, and for the hybrid lines 154-190, follow without an await
KeywordSearchReturns(t) ==
    /\ tasks[t].pc = "search"
    /\ LET task == tasks[t]
           rs == KeywordRetrieve(store, task.query, SearchSize(task))
       IN  tasks' = [tasks EXCEPT ![t] =
                        [task EXCEPT !.pc = "done",
                                     !.out = IF task.op = "keyword" THEN rs
                                             ELSE FuseResults(task.semantic_results, rs,
                                                              task.top_k,
                                                              config[1], config[2])]]
    /\ UNCHANGED <<store, sequential>>

\* the caller has read the result
Return(t) ==
    /\ tasks[t].pc = "done"
    /\ tasks' = [tasks EXCEPT ![t] = IdleTask]
    /\ UNCHANGED <<store, sequential>>

NextConcurrent ==
    \E t \in TaskIds :
        \/ Begin(t)
        \/ EmbeddingReturns(t)
        \/ SemanticSearchReturns(t)
        \/ KeywordSearchReturns(t)
        \/ Return(t)

SpecConcurrent == InitConcurrent /\ [][NextConcurrent]_vars

----------------------------------------------------------------------------
(* DocumentProcessor._clean_text of backend/src/rag/document_processor.py.  *)
(* A text is a sequence of code points.                                     *)

MaxTextLen == 3

TAB == 9
NEWLINE == 10
SPACE == 32

\* NUL, tab, newline, ESC, space and the letter a
CodePoints == {0, TAB, NEWLINE, 27, SPACE, 97}

Texts == UNION {[1..n -> CodePoints] : n \in 0..MaxTextLen}

\* str.isspace(), which is also what \s matches in a str pattern
IsSpace(char) == char \in {9, 10, 11, 12, 13, 28, 29, 30, 31, 32, 133, 160}

\* text.split(): the maximal runs of characters that are not whitespace
RECURSIVE SplitFrom(_, _, _)
SplitFrom(text, word, i) ==
    IF i > Len(text)
    THEN IF word = <<>> THEN <<>> ELSE <<word>>
    ELSE IF IsSpace(text[i])
         THEN (IF word = <<>> THEN <<>> ELSE <<word>>) \o SplitFrom(text, <<>>, i + 1)
         ELSE SplitFrom(text, Append(word, text[i]), i + 1)

Split(text) == SplitFrom(text, <<>>, 1)

\* separator.join(words)
RECURSIVE Join(_, _)
Join(separator, words) ==
    IF words = <<>> THEN <<>>
    ELSE IF Len(words) = 1 THEN words[1]
    ELSE words[1] \o separator \o Join(separator, Tail(words))

\* re.sub(r'\n\s*\n', '\n\n', text) from position i on: leftmost match,
\* \s* greedy, matches do not overlap
RECURSIVE SubBlankLines(_, _)
SubBlankLines(text, i) ==
    IF i > Len(text) THEN <<>>
    ELSE LET ends == {j \in (i + 1)..Len(text) :
                        /\ text[j] = NEWLINE
                        /\ \A m \in (i + 1)..(j - 1) : IsSpace(text[m])}
             last == CHOOSE j \in ends : \A m \in ends : m <= j
         IN  IF text[i] = NEWLINE /\ ends # {}
             THEN <<NEWLINE, NEWLINE>> \o SubBlankLines(text, last + 1)
             ELSE <<text[i]>> \o SubBlankLines(text, i + 1)

\* the condition of line 279: `and` binds tighter than `or`
Keeps(char) == (char < 32 /\ char \notin {NEWLINE, TAB}) \/ char >= 32

\* ''.join(char for char in text if ...)
SelectChars(text) == SelectSeq(text, Keeps)

\* text.strip()
RECURSIVE Strip(_)
Strip(text) ==
    IF text = <<>> THEN <<>>
    ELSE IF IsSpace(Head(text)) THEN Strip(Tail(text))
    ELSE IF IsSpace(text[Len(text)]) THEN Strip(SubSeq(text, 1, Len(text) - 1))
    ELSE text

NormalizeWhitespace(text) == Join(<<SPACE>>, Split(text))

CleanText(text) ==
    IF text = <<>> THEN <<>>
    ELSE Strip(SelectChars(SubBlankLines(NormalizeWhitespace(text), 1)))

\* a caller cleans a text
Clean ==
    /\ cleaner.pc = "idle"
    /\ \E text \in Texts :
            cleaner' = [pc |-> "done", text |-> text, cleaned |-> CleanText(text)]
    /\ UNCHANGED <<retrieval, batch, extractor>>

CleanReturns ==
    /\ cleaner.pc = "done"
    /\ cleaner' = NoText
    /\ UNCHANGED <<retrieval, batch, extractor>>

NextClean ==
    \/ Clean
    \/ CleanReturns

\* the document pipeline does not use the vector index
InitDocuments ==
    /\ store = <<>>
    /\ env = Environment
    /\ Idle

SpecClean == InitDocuments /\ [][NextClean]_vars

----------------------------------------------------------------------------
(* BatchDocumentProcessor.process_documents and the process_document        *)
(* coroutines it gathers.  A path is a stem and a suffix; the files on      *)
(* disk are fixed.                                                          *)

MaxPaths == 3

supported_formats == {".pdf", ".docx", ".epub", ".txt"}

\* book.txt and tale.TXT are readable, paper.pdf is on disk but cannot be
\* opened as a PDF, slides.ppt is on disk, lost.txt is not
FilePaths ==
    {[stem |-> "book", suffix |-> ".txt"],
     [stem |-> "tale", suffix |-> ".TXT"],
     [stem |-> "paper", suffix |-> ".pdf"],
     [stem |-> "slides", suffix |-> ".ppt"],
     [stem |-> "lost", suffix |-> ".txt"]}

FilePathLists == UNION {[1..n -> FilePaths] : n \in 0..MaxPaths}

Exists(file_path) == file_path.stem # "lost"

\* file_path.suffix.lower()
LowerSuffix(file_path) == IF file_path.suffix = ".TXT" THEN ".txt" ELSE file_path.suffix

\* the text an extractor reads
FileText(file_path) ==
    CASE file_path.stem = "book" -> <<97, NEWLINE, 97>>
      [] file_path.stem = "tale" -> <<97, 0>>
      [] OTHER -> <<>>

\* an exception as gather hands it back: its class and str(exception)
Exception(class, message, file_path) ==
    [exception |-> class, message |-> <<message, file_path>>]

\* process_document: what the coroutine returns or raises
ProcessDocument(file_path) ==
    IF ~Exists(file_path)
    THEN Exception("FileNotFoundError", "Document file not found", file_path)
    ELSE IF LowerSuffix(file_path) \notin supported_formats
    THEN Exception("ValueError", "Unsupported file format", file_path)
    ELSE IF file_path.stem = "paper"
    THEN Exception("PdfReadError", "EOF marker not found", file_path)
    ELSE LET cleaned_content == CleanText(FileText(file_path))
             full_metadata == [file_name |-> file_path, file_extension |-> LowerSuffix(file_path)]
         IN  [content |-> cleaned_content,
              metadata |-> full_metadata,
              chunks |-> IF cleaned_content = <<>> THEN <<>>
                         ELSE <<[chunk_id |-> <<file_path, 0>>, content |-> cleaned_content,
                                 metadata |-> full_metadata]>>]

\* isinstance(result, Exception)
IsException(result) == "exception" \in DOMAIN result

\* a gather that hands the results back in the order the tasks finished
GatherAsCompleted(file_paths, finished) ==
    [n \in DOMAIN finished |-> finished[n].result]

\* asyncio.gather(*tasks, return_exceptions=True): the result of task i at
\* position i, an exception in place of the result of a task that raised
Gather(file_paths, finished) ==
    [i \in DOMAIN file_paths |->
        LET n == CHOOSE n \in DOMAIN finished : finished[n].task = i
        IN  finished[n].result]

\* lines 390-401
ProcessedResults(file_paths, gathered) ==
    [i \in DOMAIN gathered |->
        IF IsException(gathered[i])
        THEN [file_path |-> file_paths[i], error |-> gathered[i].message, success |-> FALSE]
        ELSE Set(gathered[i], "success", TRUE)]

\* lines 386-387 up to the await: one task per path
ProcessDocuments ==
    /\ batch.pc = "idle"
    /\ \E file_paths \in FilePathLists :
            batch' = [NoBatch EXCEPT !.pc = "gather", !.file_paths = file_paths]
    /\ UNCHANGED <<retrieval, cleaner, extractor>>

\* one of the tasks returns or raises
ProcessDocumentFinishes ==
    /\ batch.pc = "gather"
    /\ \E i \in DOMAIN batch.file_paths :
        /\ \A n \in DOMAIN batch.finished : batch.finished[n].task # i
        /\ batch' = [batch EXCEPT !.finished =
                        Append(@, [task |-> i, result |-> ProcessDocument(batch.file_paths[i])])]
    /\ UNCHANGED <<retrieval, cleaner, extractor>>

\* the await of line 387 returns once every task is done; lines 389-401
GatherReturns ==
    /\ batch.pc = "gather"
    /\ Len(batch.finished) = Len(batch.file_paths)
    /\ batch' = [batch EXCEPT !.pc = "done",
                              !.processed_results =
                                  ProcessedResults(batch.file_paths,
                                                   Gather(batch.file_paths, batch.finished))]
    /\ UNCHANGED <<retrieval, cleaner, extractor>>

\* the caller has read the list
BatchReturns ==
    /\ batch.pc = "done"
    /\ batch' = NoBatch
    /\ UNCHANGED <<retrieval, cleaner, extractor>>

NextBatch ==
    \/ ProcessDocuments
    \/ ProcessDocumentFinishes
    \/ GatherReturns
    \/ BatchReturns

SpecBatch == InitDocuments /\ [][NextBatch]_vars

----------------------------------------------------------------------------
(* ContextExtractor of backend/src/ai/context_extractor.py.  A string is    *)
(* the sequence of its words, written with single spaces between them.     *)
(* Of the words used here only "castle" is part of another, "castles", and  *)
(* it is its beginning.                                                     *)

MaxChunks == 3

\* the content of a BookContent row that has none: None, kept apart from
\* every string
NoContent == <<None>>

\* chunk.content of a BookContent row
Contents ==
    {<<"the", "castle">>, <<"Dragon", "castles">>, <<"dragon", "castle">>, <<>>, NoContent}

\* book_content_chunks: rows in reading order, chunk_id their position
BookContentChunks ==
    UNION {[1..n -> [chunk_id : {0}, content : Contents]] : n \in 0..MaxChunks}

NumberedChunks(chunks) == [i \in DOMAIN chunks |-> [chunks[i] EXCEPT !.chunk_id = i]]

\* one word is the beginning of the other
StartsWord(word, other) == word = other \/ (word = "castle" /\ other = "castles")

\* needle in haystack, on strings
InString(needle, haystack) ==
    \/ needle = <<>>
    \/ \E j \in 1..(Len(haystack) - Len(needle) + 1) :
        /\ \A m \in 1..(Len(needle) - 1) : haystack[j + m - 1] = needle[m]
        /\ StartsWord(needle[Len(needle)], haystack[j + Len(needle) - 1])

\* re.findall(r'\b\w+\b', text.lower())
FindWords(text) == [i \in DOMAIN text |-> Lower(text[i])]

\* set(list)
SetOf(list) == {list[i] : i \in DOMAIN list}

\* the stop words of lines 347-354 among the words used here
stop_words == {"the", "of", "is", "by"}

\* len(word)
WordLength(word) ==
    CASE word \in {"ox", "of", "is", "by"} -> 2
      [] word = "the" -> 3
      [] word = "castles" -> 7
      [] OTHER -> 6

\* _extract_keywords
ExtractKeywords(text) ==
    SelectSeq(FindWords(text), LAMBDA word : word \notin stop_words /\ WordLength(word) > 2)

\* _count_keyword_matches, and the sum of line 323
CountKeywordMatches(keywords, text) ==
    Cardinality({i \in DOMAIN keywords : InString(<<keywords[i]>>, FindWords(text))})

\* the threshold of line 161 taken inclusive
AboveThresholdInclusive(score) == FLeq(Frac(1, 10), score)

\* relevance_score > 0.1
AboveThreshold(score) == FLess(Frac(1, 10), score)

\* _calculate_question_relevance_score
QuestionRelevanceScore(question, content, question_keywords) ==
    LET keyword_matches == CountKeywordMatches(question_keywords, content)
        keyword_score == IF question_keywords # <<>>
                         THEN Frac(keyword_matches, Len(question_keywords)) ELSE Zero
        question_words == SetOf(FindWords(question))
        content_words == SetOf(FindWords(content))
        semantic_score == IF question_words # {}
                          THEN Frac(Cardinality(question_words \cap content_words),
                                    Cardinality(question_words))
                          ELSE Zero
    IN  FAdd(FMul(keyword_score, Frac(6, 10)), FMul(semantic_score, Frac(4, 10)))

\* .lower() and `in` raise on a content that is None
RaisesOn(chunks, indices) == \E i \in indices : chunks[i].content = NoContent

\* lines 156-174: the fragments of the chunks that pass the threshold
ScoredFragments(question, chunks) ==
    LET question_keywords == ExtractKeywords(question)
        Score(i) == QuestionRelevanceScore(question, chunks[i].content, question_keywords)
        fragments == [i \in DOMAIN chunks |->
                        [content |-> chunks[i].content,
                         relevance_score |-> Score(i),
                         metadata |-> [chunk_id |-> chunks[i].chunk_id,
                                       keyword_matches |->
                                           CountKeywordMatches(question_keywords,
                                                               chunks[i].content)]]]
    IN  SelectSeq(fragments, LAMBDA fragment : AboveThreshold(fragment.relevance_score))

\* extract_context_for_question
ExtractContextForQuestion(question, chunks, max_fragments) ==
    IF RaisesOn(chunks, DOMAIN chunks)
    THEN <<>>
    ELSE Take(SortBy(ScoredFragments(question, chunks), "relevance_score", TRUE),
              max_fragments)

Questions ==
    {<<>>, <<"the", "Dragon", "castle">>, <<"the", "of", "is", "by">>, <<"ox", "castle">>}

MaxFragments == -1..2

\* a caller asks for the context of a question
ExtractForQuestion ==
    /\ extractor.pc = "idle"
    /\ \E question \in Questions, chunks \in BookContentChunks, max_fragments \in MaxFragments :
            extractor' =
                [pc |-> "done", op |-> "question", text |-> question,
                 chunks |-> NumberedChunks(chunks), size |-> max_fragments,
                 order |-> <<>>,
                 fragments |-> ExtractContextForQuestion(question, NumberedChunks(chunks),
                                                         max_fragments)]
    /\ UNCHANGED <<retrieval, batch, cleaner>>

\* the caller has read the fragments
ExtractReturns ==
    /\ extractor.pc = "done"
    /\ extractor' = NoExtraction
    /\ UNCHANGED <<retrieval, batch, cleaner>>

NextQuestion ==
    \/ ExtractForQuestion
    \/ ExtractReturns

SpecQuestion == InitDocuments /\ [][NextQuestion]_vars

----------------------------------------------------------------------------
(* ContextExtractor.extract_context_for_explanation.  Chunk indices are     *)
(* those of the Python list, from 0: chunk i is chunks[i + 1] here.         *)

\* list(query_words): a set of str iterates in an order that depends on the
\* hash seed of the process
ListsOf(set) == {list \in [1..Cardinality(set) -> set] : SetOf(list) = set}

FMin(a, b) == IF FLess(b, a) THEN b ELSE a

\* _calculate_relevance_score, query_words_list being the list of line 271
RelevanceScore(target_content, content, query_words_list) ==
    LET query_words == SetOf(FindWords(target_content))
        content_words == SetOf(FindWords(content))
        overlap == Cardinality(query_words \cap content_words)
        jaccard_similarity ==
            IF query_words \cup content_words # {}
            THEN Frac(overlap, Cardinality(query_words \cup content_words)) ELSE Zero
        phrases == {i \in 1..(Len(query_words_list) - 1) :
                        InString(<<query_words_list[i], query_words_list[i + 1]>>,
                                 FindWords(content))}
        phrase_score == Frac(Cardinality(phrases), 10)
    IN  IF query_words = {} THEN Zero
        ELSE FMin(One, FAdd(jaccard_similarity, phrase_score))

\* _is_similar_content with the default threshold 0.7
IsSimilarContent(content1, content2) ==
    LET words1 == SetOf(FindWords(content1))
        words2 == SetOf(FindWords(content2))
    IN  IF words1 = {} /\ words2 = {} THEN TRUE
        ELSE IF words1 = {} \/ words2 = {} THEN FALSE
        ELSE FLeq(Frac(7, 10),
                  Frac(Cardinality(words1 \cap words2), Cardinality(words1 \cup words2)))

\* _find_most_relevant_chunk_idx: the first chunk of the highest score, 0
\* for an empty list
FindMostRelevantChunkIdx(target_content, chunks, query_words_list) ==
    LET Score(i) == RelevanceScore(target_content, chunks[i + 1].content, query_words_list)
        best == {i \in 0..(Len(chunks) - 1) :
                    /\ \A j \in 0..(i - 1) : FLess(Score(j), Score(i))
                    /\ \A j \in (i + 1)..(Len(chunks) - 1) : FLeq(Score(j), Score(i))}
    IN  IF chunks = <<>> THEN 0 ELSE CHOOSE i \in best : TRUE

\* the test of line 50
Matches(target_content, content) ==
    /\ content # NoContent
    /\ InString(target_content, content) \/ IsSimilarContent(target_content, content)

\* the chunks the loop of lines 49-52 stops at
Found(target_content, chunks) ==
    {i \in 0..(Len(chunks) - 1) : Matches(target_content, chunks[i + 1].content)}

Least(set) == CHOOSE i \in set : \A j \in set : i <= j

\* lines 48-56
TargetChunkIdx(target_content, chunks, query_words_list) ==
    IF Found(target_content, chunks) # {}
    THEN Least(Found(target_content, chunks))
    ELSE FindMostRelevantChunkIdx(target_content, chunks, query_words_list)

StartIdx(target_chunk_idx, window_size) == Max(0, target_chunk_idx - window_size)

\* a window that ends before its last chunk
EndIdxShort(length, target_chunk_idx, window_size) ==
    Min(length, target_chunk_idx + window_size)

EndIdx(length, target_chunk_idx, window_size) ==
    Min(length, target_chunk_idx + window_size + 1)

\* the chunks the loop of lines 49-52 reads: up to the first match
ReadByLoop(target_content, chunks) ==
    IF Found(target_content, chunks) # {}
    THEN 0..Least(Found(target_content, chunks))
    ELSE 0..(Len(chunks) - 1)

\* extract_context_for_explanation
ExtractContextForExplanation(target_content, chunks, window_size, query_words_list) ==
    IF RaisesOn(chunks, {i + 1 : i \in ReadByLoop(target_content, chunks)})
    THEN <<>>
    ELSE LET target_chunk_idx == TargetChunkIdx(target_content, chunks, query_words_list)
             start_idx == StartIdx(target_chunk_idx, window_size)
             end_idx == EndIdx(Len(chunks), target_chunk_idx, window_size)
             context_fragments ==
                [k \in 1..Max(0, end_idx - start_idx) |->
                    LET i == start_idx + k - 1
                    IN  [content |-> chunks[i + 1].content,
                         relevance_score |->
                            RelevanceScore(target_content, chunks[i + 1].content,
                                           query_words_list),
                         metadata |-> [chunk_id |-> chunks[i + 1].chunk_id,
                                       is_target_context |-> i = target_chunk_idx]]]
         IN  IF RaisesOn(chunks, {i + 1 : i \in start_idx..(end_idx - 1)})
             THEN <<>>
             ELSE SortBy(context_fragments, "relevance_score", TRUE)

TargetContents ==
    {<<>>, <<"castle">>, <<"Dragon", "castle">>, <<"castle", "the">>, <<"knight">>}

WindowSizes == -1..1

\* a caller asks for the context of a passage
ExtractForExplanation ==
    /\ extractor.pc = "idle"
    /\ \E target_content \in TargetContents, chunks \in BookContentChunks,
          window_size \in WindowSizes :
        \E query_words_list \in ListsOf(SetOf(FindWords(target_content))) :
            extractor' =
                [pc |-> "done", op |-> "explanation", text |-> target_content,
                 chunks |-> NumberedChunks(chunks), size |-> window_size,
                 order |-> query_words_list,
                 fragments |-> ExtractContextForExplanation(target_content,
                                                            NumberedChunks(chunks),
                                                            window_size, query_words_list)]
    /\ UNCHANGED <<retrieval, batch, cleaner>>

NextExplanation ==
    \/ ExtractForExplanation
    \/ ExtractReturns

SpecExplanation == InitDocuments /\ [][NextExplanation]_vars

----------------------------------------------------------------------------
(* Vocabulary of the properties below *)

Ids(rs) == [i \in DOMAIN rs |-> rs[i].id]

IdSet(rs) == {rs[i].id : i \in DOMAIN rs}

\* the states in which results holds the output of HybridRetriever.retrieve,
\* and the top_k it was called with
IsHybridOp == op \in {"hybrid", "strategy", "rerank"}

HybridK == IF op = "rerank" THEN top_k * 2 ELSE top_k

\* the two sub-retrievals of that call
SemanticSub == SemanticRetrieve(store, query, HybridK * 2, embedding)

KeywordSub == KeywordRetrieve(store, query, HybridK * 2)

\* the score an id has in a sub-result, 0 when the sub-result does not hold it
ScoreIn(rs, id, key) ==
    IF id \in IdSet(rs) THEN rs[CHOOSE i \in DOMAIN rs : rs[i].id = id][key] ELSE Zero

\* semantic_weight * semantic_score + keyword_weight * keyword_score of an id,
\* from the two sub-results
FusedOf(sem, kw, id) ==
    FAdd(FMul(weights[1], ScoreIn(sem, id, "similarity_score")),
         FMul(weights[2], ScoreIn(kw, id, "bm25_score")))

UnionIds == IdSet(SemanticSub) \cup IdSet(KeywordSub)

SortedDescending(rs, key) ==
    \A i, j \in DOMAIN rs : i < j => FLeq(rs[j][key], rs[i][key])

----------------------------------------------------------------------------
(* C1: every candidate HybridRetriever.retrieve returns carries             *)
(* fused = semantic_weight * semantic_score + keyword_weight *              *)
(* keyword_score, a score missing from one sub-result counting as 0; a      *)
(* candidate found by one sub-strategy only is still included; and with the *)
(* weights 0.7/0.3 the pool {1: semantic 0.9, keyword 1.0},                 *)
(* {2: semantic 0.1, keyword 0} gives 0.93, 0.07 and the order [1, 2].      *)

DragonPool == <<Hit(1, Frac(1, 10)), Hit(2, Frac(9, 10))>>

DragonScenario ==
    /\ op = "hybrid"
    /\ store \in {DragonPool, <<DragonPool[2], DragonPool[1]>>}
    /\ query = <<"Dragon">>
    /\ top_k = 2
    /\ embedding

C1_FusedScore ==
    /\ IsHybridOp =>
        \A sem \in {SemanticSub}, kw \in {KeywordSub} :
            /\ \A i \in DOMAIN results :
                    results[i].combined_score = FusedOf(sem, kw, results[i].id)
            /\ Cardinality(IdSet(sem) \cup IdSet(kw)) <= HybridK =>
                    IdSet(sem) \cup IdSet(kw) \subseteq IdSet(results)
    /\ DragonScenario =>
        /\ Ids(results) = <<1, 2>>
        /\ results[1].combined_score = <<93, 100>>
        /\ results[2].combined_score = <<7, 100>>

C1_Witness ==
    /\ DragonScenario
    /\ Ids(results) = <<1, 2>>
    /\ results[1].semantic_score = <<9, 10>> /\ results[1].keyword_score = <<1, 1>>
    /\ results[2].semantic_score = <<1, 10>> /\ results[2].keyword_score = <<0, 1>>

\* a candidate only the keyword sub-strategy found is fused with semantic 0
C1_OneSidedWitness ==
    /\ op = "hybrid"
    /\ ~embedding
    /\ \E i \in DOMAIN results :
        /\ results[i].id \notin IdSet(SemanticSub)
        /\ results[i].combined_score = <<3, 10>>

----------------------------------------------------------------------------
(* C2: the ids HybridRetriever.retrieve returns are the union of the ids of *)
(* its two sub-results when that union has at most top_k members, and       *)
(* otherwise top_k ids of the union with the highest fused scores; no id    *)
(* outside the union appears.                                               *)

C2_UnionCompleteness ==
    IsHybridOp =>
        \A sem \in {SemanticSub}, kw \in {KeywordSub} :
            \A union \in {IdSet(sem) \cup IdSet(kw)} :
                /\ IdSet(results) \subseteq union
                /\ Cardinality(IdSet(results)) = Len(results)
                /\ IF Cardinality(union) <= HybridK
                   THEN IdSet(results) = union
                   ELSE /\ Len(results) = HybridK
                        /\ \A in \in IdSet(results), out \in union \ IdSet(results) :
                                FLeq(FusedOf(sem, kw, out), FusedOf(sem, kw, in))

\* truncation drops a candidate that scores strictly lower than one it keeps
C2_Witness ==
    /\ op = "hybrid"
    /\ Cardinality(UnionIds) > top_k
    /\ Len(results) = top_k
    /\ \E in \in IdSet(results), out \in UnionIds \ IdSet(results) :
            FLess(FusedOf(SemanticSub, KeywordSub, out), FusedOf(SemanticSub, KeywordSub, in))
    /\ \E i, j \in DOMAIN store : i < j /\ store[j].id \in IdSet(results)
                                        /\ store[i].id \notin IdSet(results)

----------------------------------------------------------------------------
(* C3: the list BM25Retriever.retrieve returns is sorted in descending      *)
(* order of its keyword score, whatever order the index returns the pool in. *)

C3_KeywordSorted ==
    op = "keyword" => SortedDescending(results, "bm25_score")

----------------------------------------------------------------------------
(* C4: in the list every stage returns (semantic, keyword, hybrid,          *)
(* reranker) the candidate at 1-based position i carries rank = i.          *)

RankIsPosition(rs) == \A i \in DOMAIN rs : rs[i].rank = i

C4_RankIsPosition ==
    /\ op \in {"semantic", "keyword", "hybrid", "strategy"} => RankIsPosition(results)
    /\ op = "rerank" /\ ~Truthy(book_id) => RankIsPosition(returned)

\* C4, the part that holds: the two strategies that build their records in
\* order number them 1..n
C4_FirstStageRanks ==
    op \in {"semantic", "keyword"} => RankIsPosition(results)

----------------------------------------------------------------------------
(* C5: with semantic_weight = 1 and keyword_weight = 0 the ids              *)
(* HybridRetriever.retrieve returns are, in order, those SemanticRetriever  *)
(* returns over the same pool (the hits of the hybrid's own index query),   *)
(* cut to top_k, also when candidates have equal similarity.                *)

SemanticOrder == Ids(Take(SemanticRetrieve(store, query, top_k * 2, embedding), top_k))

\* C5 as claimed: the two orders agree whatever the embedding generator returned
C5_SemanticLimit_Original ==
    op = "strategy" /\ weights = <<One, Zero>> => Ids(results) = SemanticOrder

\* C5 as amended: the two orders agree, ties included, when the embedding
\* generator returned a non-empty embedding
C5_SemanticLimit ==
    op = "strategy" /\ weights = <<One, Zero>> /\ embedding =>
        /\ Ids(results) = SemanticOrder
        /\ SortedDescending(results, "similarity_score")

\* two candidates of equal similarity, in an order the index did not give them
C5_Witness ==
    /\ op = "strategy" /\ weights = <<One, Zero>> /\ embedding
    /\ Len(results) = 2
    /\ results[1].similarity_score = results[2].similarity_score
    /\ Len(store) = 3
    /\ store[1].distance = <<9, 10>>
    /\ Ids(results) = <<store[2].id, store[3].id>>

----------------------------------------------------------------------------
(* C6: with semantic_weight = 0 and keyword_weight = 1 the ids              *)
(* HybridRetriever.retrieve returns are, in order, those BM25Retriever      *)
(* returns over the same pool, cut to top_k.                                *)

KeywordOrder == Ids(Take(KeywordRetrieve(store, query, top_k * 2), top_k))

C6_KeywordLimit ==
    op = "strategy" /\ weights = <<Zero, One>> => Ids(results) = KeywordOrder

----------------------------------------------------------------------------
(* C7: each of the four service operations returns at most top_k            *)
(* candidates, the index returning at most n_results hits.                  *)

IsServiceOp == op \in {"semantic", "keyword", "hybrid", "rerank"}

C7_AtMostTopK == IsServiceOp => Len(returned) <= top_k

\* the index holds more hits than top_k and the operation returns top_k of them
C7_Witness ==
    /\ op = "rerank"
    /\ Len(store) > top_k
    /\ Len(results) > top_k
    /\ Len(returned) = top_k

----------------------------------------------------------------------------
(* C8: with a non-empty book_id, retrieve_by_semantic_similarity,           *)
(* retrieve_by_keyword_matching and retrieve_hybrid return exactly the      *)
(* subsequence of the strategy's unscoped top_k ranking whose               *)
(* metadata.book_id equals book_id: same relative order, nothing added.     *)

UnscopedRanking ==
    CASE op = "semantic" -> SemanticRetrieve(store, query, top_k, embedding)
      [] op = "keyword" -> KeywordRetrieve(store, query, top_k)
      [] op = "hybrid" ->
            HybridRetrieve(store, query, top_k, embedding, DefaultWeights[1], DefaultWeights[2])
      [] OTHER -> <<>>

InBook(r, b) == "book_id" \in DOMAIN r.metadata /\ r.metadata.book_id = b

\* the positions of rs whose candidate belongs to book b
Matching(rs, b) == {i \in DOMAIN rs : InBook(rs[i], b)}

\* out is rs with exactly the positions in keep kept, in order
IsSubsequenceAt(out, rs, keep) ==
    /\ Len(out) = Cardinality(keep)
    /\ \A i \in keep : out[Cardinality({j \in keep : j <= i})] = rs[i]

C8_FilterIsSubsequence ==
    op \in {"semantic", "keyword", "hybrid"} /\ book_id \notin {None, ""} =>
        /\ results = UnscopedRanking
        /\ IsSubsequenceAt(returned, results, Matching(results, book_id))

\* a full ranking with one candidate of book B, behind one of another book
C8_Witness ==
    /\ op = "hybrid" /\ book_id = "B"
    /\ Len(results) = top_k /\ top_k = MaxTopK
    /\ ~InBook(results[1], "B")
    /\ Cardinality(Matching(results, "B")) = 1
    /\ Len(returned) = 1

\* two candidates survive the filter and keep their relative order
C8_OrderWitness ==
    /\ op = "semantic" /\ book_id = "B"
    /\ Len(returned) = 2
    /\ returned[1].rank < returned[2].rank

----------------------------------------------------------------------------
(* C9: retrieve_with_reranking returns the first top_k of                   *)
(* Rerank(Filter(Hybrid(query, 2 * top_k))): it asks the hybrid strategy    *)
(* for 2 * top_k candidates, filters by book before reranking, reranks the  *)
(* survivors only and truncates last.                                       *)

Survivors ==
    IF book_id \in {None, ""} THEN DOMAIN results ELSE Matching(results, book_id)

C9_RerankPipeline ==
    op = "rerank" =>
        /\ results =
            HybridRetrieve(store, query, 2 * top_k, embedding,
                           DefaultWeights[1], DefaultWeights[2])
        /\ returned = Take(RerankResults(query, FilterBook(results, book_id)), top_k)
        \* only survivors of the filter, each at most once
        /\ IdSet(returned) \subseteq {results[i].id : i \in Survivors}
        /\ Cardinality(IdSet(returned)) = Len(returned)
        \* truncated last: as many as survive, up to top_k, and the best of them
        /\ Len(returned) = Min(top_k, Cardinality(Survivors))
        /\ \A i \in Survivors : \A j \in DOMAIN returned :
                results[i].id \notin IdSet(returned) =>
                    FLeq(RerankedScore(query, results[i]), returned[j].reranked_score)

\* 2 * top_k candidates fetched; the filter removes the fused-first one, which a
\* cut to top_k before the filter would have kept alone
C9_Witness ==
    /\ op = "rerank" /\ book_id = "B" /\ top_k = 1
    /\ Len(store) = 3
    /\ Len(results) = 2
    /\ ~InBook(results[1], "B")
    /\ Ids(returned) = <<results[2].id>>

\* both candidates survive and the reranker promotes the fused-second one
C9_PromotionWitness ==
    /\ op = "rerank" /\ book_id = "B" /\ top_k = 1
    /\ Cardinality(Survivors) = 2
    /\ Ids(returned) = <<results[2].id>>

----------------------------------------------------------------------------
(* C10: every candidate the reranker returns carries reranked = 0.5 * fused *)
(* + 0.3 * term_overlap + 0.1 * length_score + 0.1 * position_score, with   *)
(* term_overlap = |query_words /\ content_words| / |query_words| (0 for a   *)
(* query without words), length_score = 1.0 exactly for 20 to 500 words     *)
(* (20 and 500 give 1.0, 19 and 501 give 0.5), position_score = 1.0; the    *)
(* output is sorted descending by reranked.                                 *)

OverlapRatio(q, content) ==
    IF QueryWords(q) = {} THEN <<0, 1>>
    ELSE Frac(Cardinality({w \in QueryWords(q) : w \in WordSet(content)}),
              Cardinality(QueryWords(q)))

LengthSignal(content) ==
    IF WordCount(content) \in 20..500 THEN <<1, 1>> ELSE <<1, 2>>

\* 0.5 * fused + 0.3 * overlap + 0.1 * length + 0.1 * 1.0
Blend(fused, overlap, length) ==
    FAdd(FAdd(FMul(<<1, 2>>, fused), FMul(<<3, 10>>, overlap)),
         FAdd(FMul(<<1, 10>>, length), <<1, 10>>))

C10_RerankedScore ==
    op = "rerank" =>
        /\ \A i \in DOMAIN returned :
            returned[i].reranked_score =
                Blend(returned[i].combined_score,
                      OverlapRatio(query, returned[i].content),
                      LengthSignal(returned[i].content))
        /\ SortedDescending(returned, "reranked_score")

\* candidates of 20 and of 19 words: length_score 1.0 and 0.5
C10_Witness ==
    /\ op = "rerank" /\ query = <<"Dragon">>
    /\ \E i, j \in DOMAIN returned :
        /\ WordCount(returned[i].content) = 20
        /\ returned[i].reranked_score =
                Blend(returned[i].combined_score, <<0, 1>>, <<1, 1>>)
        /\ WordCount(returned[j].content) = 19
        /\ returned[j].reranked_score =
                Blend(returned[j].combined_score, <<1, 1>>, <<1, 2>>)

\* candidates of 500 and of 501 words: length_score 1.0 and 0.5
C10_UpperWitness ==
    /\ op = "rerank" /\ query = <<"castle", "moat">>
    /\ \E i, j \in DOMAIN returned :
        /\ WordCount(returned[i].content) = 500
        /\ returned[i].reranked_score =
                Blend(returned[i].combined_score, <<1, 1>>, <<1, 1>>)
        /\ WordCount(returned[j].content) = 501
        /\ returned[j].reranked_score =
                Blend(returned[j].combined_score, <<0, 1>>, <<1, 2>>)

----------------------------------------------------------------------------
(* C11: fusion and reranking leave the records they read as they were, and  *)
(* every record they return is the record it was derived from with nothing  *)
(* removed or changed and only the new score keys added: the three fused    *)
(* keys after HybridRetriever.retrieve, reranked_score after                *)
(* _rerank_results.                                                         *)

FusedKeys == {"combined_score", "semantic_score", "keyword_score"}

\* out is src with the keys new added and every key of src as it was
DerivedFrom(out, src, new) ==
    /\ new \cap DOMAIN src = {}
    /\ DOMAIN out = DOMAIN src \cup new
    /\ \A key \in DOMAIN src : out[key] = src[key]

\* the record of the sub-results that result_scores keeps as the document
BaseRecord(sem, kw, id) ==
    IF id \in IdSet(sem) THEN sem[CHOOSE i \in DOMAIN sem : sem[i].id = id]
    ELSE kw[CHOOSE i \in DOMAIN kw : kw[i].id = id]

C11_InputsKept ==
    /\ IsHybridOp =>
        \A sem \in {SemanticSub}, kw \in {KeywordSub} :
            /\ op # "rerank" => inputs = sem \o kw
            /\ \A i \in DOMAIN results :
                    /\ results[i].id \in IdSet(sem) \cup IdSet(kw)
                    /\ DerivedFrom(results[i], BaseRecord(sem, kw, results[i].id), FusedKeys)
    /\ op = "rerank" =>
        /\ inputs = [i \in 1..Cardinality(Survivors) |->
                        results[CHOOSE j \in Survivors :
                                    Cardinality({m \in Survivors : m <= j}) = i]]
        /\ \A i \in DOMAIN returned :
                \E j \in DOMAIN inputs :
                    /\ inputs[j].id = returned[i].id
                    /\ FusedKeys \subseteq DOMAIN inputs[j]
                    /\ DerivedFrom(returned[i], inputs[j], {"reranked_score"})

\* a reranked list of two, from a pool the book filter cut
C11_Witness ==
    /\ op = "rerank"
    /\ book_id = "B"
    /\ Len(results) = 3
    /\ Len(inputs) = 2
    /\ Len(returned) = 2
    /\ \A i \in DOMAIN returned : "reranked_score" \in DOMAIN returned[i]
    /\ \A j \in DOMAIN inputs : "reranked_score" \notin DOMAIN inputs[j]

\* a fused list whose second record has the keyword record as its base
C11_FusionWitness ==
    /\ op = "hybrid"
    /\ ~embedding
    /\ Len(results) = 2
    /\ Len(inputs) = 3
    /\ "bm25_score" \in DOMAIN results[2]
    /\ "combined_score" \notin DOMAIN inputs[2]

----------------------------------------------------------------------------
(* C12: with the weights 0.7/0.3 and an index that returns a non-negative   *)
(* distance per hit, every score a returned candidate carries (semantic     *)
(* similarity, keyword, fused, reranked) lies in [0, 1].                    *)

ScoreKeys ==
    {"similarity_score", "bm25_score", "semantic_score", "keyword_score",
     "combined_score", "reranked_score"}

InUnit(x) == FLeq(Zero, x) /\ FLeq(x, One)

ScoresInUnit(rs) ==
    \A i \in DOMAIN rs : \A key \in ScoreKeys \cap DOMAIN rs[i] : InUnit(rs[i][key])

C12_ScoresInUnit ==
    IsServiceOp /\ (\A i \in DOMAIN store : FLeq(Zero, store[i].distance)) =>
        ScoresInUnit(results) /\ ScoresInUnit(returned)

----------------------------------------------------------------------------
(* C13: when every distance the index returns lies in [0, 1] and the two    *)
(* weights are non-negative and sum to 1, every fused score                 *)
(* HybridRetriever.retrieve produces and every reranked score               *)
(* _rerank_results produces from those candidates lies in [0, 1].           *)

UnitWeights ==
    /\ FLeq(Zero, weights[1])
    /\ FLeq(Zero, weights[2])
    /\ FAdd(weights[1], weights[2]) = One

C13_FusedAndRerankedInUnit ==
    (/\ IsHybridOp
     /\ UnitWeights
     /\ \A i \in DOMAIN store : InUnit(store[i].distance)) =>
        /\ \A i \in DOMAIN results : InUnit(results[i].combined_score)
        /\ op = "rerank" =>
                \A i \in DOMAIN returned : InUnit(returned[i].reranked_score)

\* both ends are reached: a candidate fused to 0 and one reranked to 1
C13_Witness ==
    /\ op = "rerank"
    /\ UnitWeights
    /\ \E i \in DOMAIN returned :
            returned[i].combined_score = One /\ returned[i].reranked_score = One
    /\ \E i \in DOMAIN results : results[i].combined_score = Zero

----------------------------------------------------------------------------
(* C14: a call returns the same sequence of candidates, with the same       *)
(* scores, as an earlier call of the same operation with the same query,    *)
(* top_k, book_id and embedding outcome over the same hit list, whatever    *)
(* calls were made in between.                                              *)

----------------------------------------------------------------------------
(* C15: for a query with no words, every strategy returns an empty list     *)
(* and raises nothing, also when the index returns hits for it.             *)

C15_EmptyQueryEmptyResult ==
    op # "idle" /\ QueryWords(query) = {} =>
        results = <<>> /\ raised = None

----------------------------------------------------------------------------
(* C16: a service operation called with top_k < 1 is rejected with an       *)
(* invalid-argument error and returns no candidate list.                    *)

InvalidArgument == "invalid-argument"

C16_TopKRejected ==
    IsServiceOp /\ top_k < 1 => raised = InvalidArgument

----------------------------------------------------------------------------
(* C17: when the vector index or the embedding generator fails during a     *)
(* retrieval, no exception leaves the strategy or the service operation:    *)
(* the strategy that awaited the failing collaborator returns an empty      *)
(* list.                                                                    *)

C17_NoExceptionPropagates ==
    op # "idle" /\ env.faults # {"none"} => raised = None

----------------------------------------------------------------------------
(* C18: when generate_embedding returns an empty embedding,                 *)
(* SemanticRetriever.retrieve returns an empty list, and                    *)
(* HybridRetriever.retrieve (so retrieve_hybrid and                         *)
(* retrieve_with_reranking) still returns the keyword retriever's           *)
(* candidates, each with semantic score 0 and fused = keyword_weight *      *)
(* keyword_score, whenever the index returns hits.                          *)

KeywordOnly(rs, kw) ==
    \A i \in DOMAIN rs :
        /\ rs[i].id \in IdSet(kw)
        /\ rs[i].semantic_score = Zero
        /\ rs[i].keyword_score = ScoreIn(kw, rs[i].id, "bm25_score")
        /\ rs[i].combined_score = FMul(weights[2], rs[i].keyword_score)

C18_EmptyEmbeddingFallback ==
    op # "idle" /\ ~embedding =>
        /\ op = "semantic" => results = <<>> /\ returned = <<>>
        /\ IsHybridOp =>
            \A kw \in {KeywordSub} :
                /\ KeywordOnly(results, kw)
                /\ KeywordOnly(returned, kw)
                /\ Len(results) = Min(HybridK, Len(kw))
                /\ store # <<>> => results # <<>>
                /\ store # <<>> /\ ~Truthy(book_id) => returned # <<>>

\* the reranking operation returning two keyword candidates, one fused to 0.3
C18_Witness ==
    /\ op = "rerank"
    /\ ~embedding
    /\ Len(store) = 3
    /\ Len(returned) = 2
    /\ \E i \in DOMAIN returned : returned[i].combined_score = <<3, 10>>

\* the semantic operation over a non-empty index
C18_SemanticWitness ==
    /\ op = "semantic"
    /\ ~embedding
    /\ Len(store) = 3
    /\ returned = <<>>

----------------------------------------------------------------------------
(* C19: requests that run concurrently on the shared service instance,      *)
(* interleaved at their awaits, each return the result the same request     *)
(* returns when it runs alone: no request changes state another request     *)
(* reads, the lists the index hands back included.                          *)

\* what the request returns when it runs alone over the index as it was
Alone(task) ==
    CASE task.op = "semantic" ->
            SemanticRetrieve(env.pool, task.query, task.top_k, task.embedding)
      [] task.op = "keyword" ->
            KeywordRetrieve(env.pool, task.query, task.top_k)
      [] task.op = "hybrid" ->
            HybridRetrieve(env.pool, task.query, task.top_k, task.embedding,
                           config[1], config[2])

C19_AloneResult ==
    \A t \in DOMAIN tasks : tasks[t].pc = "done" => tasks[t].out = Alone(tasks[t])

\* the same, when every search hands back a new list
C19_AloneResultOwnLists ==
    ~env.shared => C19_AloneResult

----------------------------------------------------------------------------
(* C20: HybridRetriever.retrieve returns the same ordered list, with the    *)
(* same fields and scores, when the keyword results are merged into         *)
(* result_scores before the semantic results as when they are merged        *)
(* after them.                                                              *)

\* lines 154-190 with the loop of 164-168 run before the loop of 157-161
FuseKeywordFirst(semantic_results, keyword_results, k, sw, kw) ==
    LET result_scores ==
            AddScores(AddScores(<<>>, keyword_results, "keyword_score", "bm25_score"),
                      semantic_results, "semantic_score", "similarity_score")
        combined_results == CombinedResults(result_scores, sw, kw)
    IN  Take(SortBy(combined_results, "combined_score", TRUE), k)

KeywordFirst == FuseKeywordFirst(SemanticSub, KeywordSub, HybridK, weights[1], weights[2])

C20_MergeOrder_Original ==
    IsHybridOp => results = KeywordFirst

\* the two merge orders give the same fused score at every position and the
\* same three scores to every id both return; the record a candidate is
\* copied from, and the order of candidates with equal fused score, are
\* those of the sub-result merged first
C20_MergeOrderScores ==
    IsHybridOp =>
        \A other \in {KeywordFirst} :
            /\ Len(other) = Len(results)
            /\ \A i \in DOMAIN results :
                    results[i].combined_score = other[i].combined_score
            /\ \A i \in DOMAIN results, j \in DOMAIN other :
                    results[i].id = other[j].id =>
                        \A key \in FusedKeys : results[i][key] = other[j][key]

\* both sub-results found the candidates, and the other merge order would
\* return them in another order
C20_Witness ==
    /\ IsHybridOp
    /\ embedding
    /\ Len(results) = 2
    /\ IdSet(results) \subseteq IdSet(SemanticSub) \cap IdSet(KeywordSub)
    /\ Ids(KeywordFirst) = <<results[2].id, results[1].id>>

\* the same ids in the same order, copied from the other sub-result
C20_BaseRecordWitness ==
    /\ op = "hybrid"
    /\ embedding
    /\ results # <<>>
    /\ Ids(KeywordFirst) = Ids(results)
    /\ "similarity_score" \in DOMAIN results[1]
    /\ "bm25_score" \in DOMAIN KeywordFirst[1]

----------------------------------------------------------------------------
(* C21: no two candidates HybridRetriever.retrieve returns have the same    *)
(* id, also when both sub-results hold the id or one sub-result holds it    *)
(* more than once.                                                          *)

DistinctIds(rs) == \A i, j \in DOMAIN rs : i # j => rs[i].id # rs[j].id

C21_DistinctIds ==
    IsHybridOp => DistinctIds(results) /\ DistinctIds(returned)

\* the index returned chunk 1 twice and chunk 2 once, to both sub-retrievals
C21_Witness ==
    /\ op = "hybrid"
    /\ embedding
    /\ top_k = 2
    /\ Len(store) = 3
    /\ store[1].id = 1 /\ store[2].id = 1 /\ store[3].id = 2
    /\ ~DistinctIds(SemanticSub)
    /\ ~DistinctIds(KeywordSub)
    /\ Len(results) = 2

----------------------------------------------------------------------------
(* C22: SemanticRetriever.retrieve gives each hit of the index              *)
(* similarity = 1 - distance, returns the hits by descending similarity     *)
(* whatever order the index returned them in, and ranks them 1..n in that   *)
(* order.                                                                   *)

\* the hits the index returns for n_results = top_k
Searched == 1..Min(top_k, Len(store))

C22_SemanticSorted ==
    op = "semantic" /\ embedding =>
        /\ Len(results) = Cardinality(Searched)
        /\ IdSet(results) = {store[j].id : j \in Searched}
        /\ \A i \in DOMAIN results :
                \E j \in Searched :
                    /\ store[j].id = results[i].id
                    /\ FAdd(results[i].similarity_score, store[j].distance) = One
        /\ SortedDescending(results, "similarity_score")
        /\ RankIsPosition(results)

\* the index returned the farther hit first
C22_Witness ==
    /\ op = "semantic"
    /\ embedding
    /\ top_k = 2
    /\ Len(store) >= 2
    /\ FLess(store[2].distance, store[1].distance)
    /\ Ids(results) = <<store[2].id, store[1].id>>
    /\ results[1].similarity_score = <<9, 10>>
    /\ results[2].similarity_score = <<1, 10>>

----------------------------------------------------------------------------
(* C23: BM25Retriever.retrieve scores every candidate                       *)
(* |query_words /\ content_words| / |query_words| over lower-cased word     *)
(* sets, and 0, with no arithmetic fault, when the query has no words;      *)
(* term_overlap in _rerank_results has the same guard.                      *)

C23_KeywordScore ==
    /\ op = "keyword" =>
        \A i \in DOMAIN results :
            results[i].bm25_score = OverlapRatio(query, results[i].content)
    /\ op \in {"keyword", "rerank"} /\ QueryWords(query) = {} =>
        /\ raised = None
        /\ Len(results) = Min(IF op = "rerank" THEN top_k * 2 ELSE top_k, Len(store))
        /\ \A i \in DOMAIN results :
                Get(results[i], "bm25_score", results[i].keyword_score) = <<0, 1>>
        /\ op = "rerank" =>
                \A i \in DOMAIN returned :
                    returned[i].reranked_score =
                        Blend(returned[i].combined_score, <<0, 1>>,
                              LengthSignal(returned[i].content))

\* a query word that matches a content word only once both are lower-cased
C23_Witness ==
    /\ op = "keyword"
    /\ query = <<"Dragon">>
    /\ \E i \in DOMAIN results :
            /\ "Dragon" \notin DOMAIN results[i].content
            /\ results[i].bm25_score = <<1, 1>>

\* a candidate that holds one of the query's two words
C23_HalfWitness ==
    /\ op = "keyword"
    /\ query = <<"castle", "moat">>
    /\ \E i \in DOMAIN results : results[i].bm25_score = <<1, 2>>

\* a query without words, scored 0 by both stages
C23_EmptyQueryWitness ==
    /\ op = "rerank"
    /\ query = <<>>
    /\ Len(returned) = 2
    /\ \A i \in DOMAIN returned : returned[i].keyword_score = <<0, 1>>

----------------------------------------------------------------------------
(* C24: for a candidate without a fused score _rerank_results takes the     *)
(* candidate's semantic score as the prior, and 0 only when the candidate   *)
(* has neither; so a candidate of SemanticRetriever.retrieve, which carries *)
(* only its similarity, is reranked with its similarity as the prior.       *)

\* the candidate's semantic score, under either key a stage stores it
SemanticScoreOf(r) == Get(r, "semantic_score", Get(r, "similarity_score", <<0, 1>>))

Prior(r) == Get(r, "combined_score", SemanticScoreOf(r))

C24_PriorFallback ==
    op = "reranker" =>
        \A i \in DOMAIN returned :
            returned[i].reranked_score =
                Blend(Prior(returned[i]),
                      OverlapRatio(query, returned[i].content),
                      LengthSignal(returned[i].content))

\* C24, the part that holds: the prior is the value under the key
\* semantic_score, and 0 for a record without that key
C24_SemanticScoreKey ==
    op = "reranker" =>
        \A i \in DOMAIN returned :
            returned[i].reranked_score =
                Blend(Get(returned[i], "semantic_score", <<0, 1>>),
                      OverlapRatio(query, returned[i].content),
                      LengthSignal(returned[i].content))

----------------------------------------------------------------------------
(* C25: two candidates with equal fused score come out of                   *)
(* HybridRetriever.retrieve, and two with equal reranked score out of       *)
(* _rerank_results, in the order they went in: for the fusion the semantic  *)
(* results in their order, then the candidates only the keyword retriever   *)
(* found, in its order.                                                     *)

\* the ids in the order the fusion reads them
FusionOrder(sem, kw) ==
    Ids(sem) \o Ids(SelectSeq(kw, LAMBDA r : r.id \notin IdSet(sem)))

PositionIn(ids, id) == CHOOSE p \in DOMAIN ids : ids[p] = id

\* equal scores under key keep the order of the ids in order
TiesKeep(rs, key, order) ==
    \A i, j \in DOMAIN rs :
        i < j /\ rs[i][key] = rs[j][key] =>
            PositionIn(order, rs[i].id) < PositionIn(order, rs[j].id)

C25_TiesKeepInputOrder ==
    /\ IsHybridOp =>
        \A order \in {FusionOrder(SemanticSub, KeywordSub)} :
            TiesKeep(results, "combined_score", order)
    /\ op = "rerank" => TiesKeep(returned, "reranked_score", Ids(results))

\* two candidates fused to the same score that the index returned in the
\* other order
C25_Witness ==
    /\ op = "strategy"
    /\ embedding
    /\ Len(results) = 2
    /\ results[1].combined_score = results[2].combined_score
    /\ Ids(results) = Ids(SemanticSub)
    /\ Ids(KeywordSub) = <<results[2].id, results[1].id>>

\* two candidates reranked to the same score
C25_RerankWitness ==
    /\ op = "rerank"
    /\ Len(returned) = 2
    /\ returned[1].reranked_score = returned[2].reranked_score
    /\ Ids(returned) = Ids(results)

----------------------------------------------------------------------------
(* C26: an empty string as book_id is treated as no book_id: each of the    *)
(* four service operations returns the candidates of every book, those      *)
(* without a book_id in their metadata included.                            *)

C26_EmptyBookId ==
    IsServiceOp /\ book_id = "" =>
        /\ op # "rerank" => returned = results
        /\ op = "rerank" =>
            /\ Len(returned) = Min(top_k, Len(results))
            /\ IdSet(returned) \subseteq IdSet(results)
            /\ inputs = results

\* candidates of book A, of book B and of no book, returned together
C26_Witness ==
    /\ op = "rerank"
    /\ book_id = ""
    /\ Len(returned) = 2
    /\ \E i, j \in DOMAIN returned :
            /\ "book_id" \notin DOMAIN returned[i].metadata
            /\ "book_id" \in DOMAIN returned[j].metadata
            /\ returned[j].metadata.book_id # ""

\* the other three operations, each returning a candidate of a named book
C26_UnfilteredWitness ==
    /\ op \in {"semantic", "keyword", "hybrid"}
    /\ book_id = ""
    /\ Len(returned) = 2
    /\ returned[1].metadata = [book_id |-> "A"]
    /\ returned[2].metadata = [book_id |-> "B"]

----------------------------------------------------------------------------
(* C29: the text _clean_text returns holds no control character (code      *)
(* point below 32) other than newline and tab, whatever the input text.    *)
(* The code keeps every control character that split() does not treat as   *)
(* whitespace: the text a NUL a comes back as it went in.                   *)

ControlCharacters(text) ==
    {i \in DOMAIN text : text[i] < 32 /\ text[i] \notin {NEWLINE, TAB}}

C29_NoControlCharacters ==
    cleaner.pc = "done" => ControlCharacters(cleaner.cleaned) = {}

\* what does hold: the result has no newline, no tab and no other whitespace
\* than single spaces between words
C29_NoNewlineOrTab ==
    cleaner.pc = "done" =>
        /\ \A i \in DOMAIN cleaner.cleaned :
                IsSpace(cleaner.cleaned[i]) => cleaner.cleaned[i] = SPACE
        /\ cleaner.cleaned = NormalizeWhitespace(cleaner.text)

C29_Kept ==
    /\ cleaner.pc = "done"
    /\ cleaner.text = <<97, 0, 97>>
    /\ cleaner.cleaned = <<97, 0, 97>>

----------------------------------------------------------------------------
(* C27: process_documents returns one result per input path, in input      *)
(* order: an error record {file_path, error, success: False} where the     *)
(* document's processing raised, the processed result with success: True   *)
(* everywhere else; and each position holds what a batch of that document  *)
(* alone returns, whatever order the tasks finished in.                    *)

\* what process_documents returns for a batch of one path
BatchOfOne(file_path) ==
    ProcessedResults(<<file_path>>,
                     Gather(<<file_path>>, <<[task |-> 1, result |-> ProcessDocument(file_path)]>>))[1]

Raising(file_path) == IsException(ProcessDocument(file_path))

\* the order the tasks finished in
FinishOrder == [n \in DOMAIN batch.finished |-> batch.finished[n].task]

C27_OneResultPerPath ==
    batch.pc = "done" =>
        /\ Len(batch.processed_results) = Len(batch.file_paths)
        /\ \A i \in DOMAIN batch.file_paths :
            \A file_path \in {batch.file_paths[i]}, result \in {batch.processed_results[i]} :
                /\ result = BatchOfOne(file_path)
                /\ IF Raising(file_path)
                   THEN /\ DOMAIN result = {"file_path", "error", "success"}
                        /\ result.file_path = file_path
                        /\ result.error = ProcessDocument(file_path).message
                        /\ result.success = FALSE
                   ELSE /\ result.success = TRUE
                        /\ \A key \in DOMAIN ProcessDocument(file_path) :
                                result[key] = ProcessDocument(file_path)[key]

\* a failing document between two readable ones, the last task finishing first
C27_Witness ==
    /\ batch.pc = "done"
    /\ Len(batch.file_paths) = 3
    /\ FinishOrder = <<3, 2, 1>>
    /\ ~Raising(batch.file_paths[1])
    /\ Raising(batch.file_paths[2])
    /\ ~Raising(batch.file_paths[3])
    /\ batch.file_paths[1] # batch.file_paths[3]
    /\ batch.processed_results[2].success = FALSE
    /\ batch.processed_results[1].success
    /\ batch.processed_results[3].success

----------------------------------------------------------------------------
(* C28: extract_context_for_question returns at most max_fragments         *)
(* fragments, each with relevance_score > 0.1, in descending order of      *)
(* relevance_score, and no chunk left out scores strictly higher than a    *)
(* returned one; an exception during extraction yields an empty list.      *)
(* As stated it fails for a negative max_fragments, where the slice of     *)
(* line 180 drops that many fragments from the end instead: C28_Original.  *)
(* C28_QuestionFragments states the bound for max_fragments >= 0 and the   *)
(* length for a negative one.                                              *)

QuestionDone == extractor.pc = "done" /\ extractor.op = "question"

ExtractionRaises == RaisesOn(extractor.chunks, DOMAIN extractor.chunks)

\* the score of chunk i for the question asked
ScoreOfChunk(i) ==
    QuestionRelevanceScore(extractor.text, extractor.chunks[i].content,
                           ExtractKeywords(extractor.text))

\* the chunks that pass the threshold
Qualifying == {i \in DOMAIN extractor.chunks : FLess(Frac(1, 10), ScoreOfChunk(i))}

ReturnedChunkIds == {extractor.fragments[n].metadata.chunk_id : n \in DOMAIN extractor.fragments}

Descending(fragments) ==
    \A m, n \in DOMAIN fragments :
        m < n => FLeq(fragments[n].relevance_score, fragments[m].relevance_score)

\* what the claim says of the fragments apart from their number
RankedAboveThreshold ==
    /\ \A n \in DOMAIN extractor.fragments :
        /\ FLess(Frac(1, 10), extractor.fragments[n].relevance_score)
        /\ extractor.fragments[n].metadata.chunk_id \in DOMAIN extractor.chunks
        /\ extractor.fragments[n].relevance_score =
                ScoreOfChunk(extractor.fragments[n].metadata.chunk_id)
        /\ extractor.fragments[n].content =
                extractor.chunks[extractor.fragments[n].metadata.chunk_id].content
    /\ Descending(extractor.fragments)
    /\ Cardinality(ReturnedChunkIds) = Len(extractor.fragments)
    /\ \A i \in DOMAIN extractor.chunks \ ReturnedChunkIds :
        \A n \in DOMAIN extractor.fragments :
            ~FLess(extractor.fragments[n].relevance_score, ScoreOfChunk(i))

C28_ThresholdWitness ==
    /\ QuestionDone
    /\ ~ExtractionRaises
    /\ extractor.size = 2
    /\ extractor.fragments = <<>>
    /\ \E i \in DOMAIN extractor.chunks : ScoreOfChunk(i) = Frac(1, 10)

\* a row without content among rows that would pass: nothing is returned
C28_RaisesWitness ==
    /\ QuestionDone
    /\ ExtractionRaises
    /\ extractor.fragments = <<>>
    /\ \E i \in DOMAIN extractor.chunks :
        /\ extractor.chunks[i].content # NoContent
        /\ FLess(Frac(1, 10), ScoreOfChunk(i))

\* max_fragments = -1 with two chunks that pass: one fragment comes back
C28_NegativeWitness ==
    /\ QuestionDone
    /\ ~ExtractionRaises
    /\ extractor.size = -1
    /\ Len(extractor.fragments) = 1

----------------------------------------------------------------------------
(* C30: extract_context_for_explanation returns one fragment for each of   *)
(* the chunks at indices max(0, t - window_size) .. min(len - 1,           *)
(* t + window_size), t being the first chunk that contains or resembles    *)
(* the target content, else the most relevant chunk; exactly one fragment  *)
(* is flagged is_target_context when the chunk list is not empty; the      *)
(* fragments are in descending order of relevance_score; an empty chunk    *)
(* list gives an empty result.  As stated it fails for a negative          *)
(* window_size and when reading a chunk raises, where nothing is returned  *)
(* for a chunk list that is not empty: C30_Original.                       *)

ExplanationDone == extractor.pc = "done" /\ extractor.op = "explanation"

\* the target chunk index t of the call
TargetIdx == TargetChunkIdx(extractor.text, extractor.chunks, extractor.order)

\* the indices the claim names
WindowOf(t) ==
    {i \in 0..(Len(extractor.chunks) - 1) :
        /\ Max(0, t - extractor.size) <= i
        /\ i <= Min(Len(extractor.chunks) - 1, t + extractor.size)}

\* reading a chunk of the call raises: one before or at the first match, or
\* one of the window
ExplanationRaises ==
    \/ RaisesOn(extractor.chunks, {i + 1 : i \in ReadByLoop(extractor.text, extractor.chunks)})
    \/ RaisesOn(extractor.chunks, {i + 1 : i \in WindowOf(TargetIdx)})

Flagged == {n \in DOMAIN extractor.fragments : extractor.fragments[n].metadata.is_target_context}

\* one fragment per chunk of the window, each with the chunk's content
FragmentsOfWindow(t) ==
    /\ Len(extractor.fragments) = Cardinality(WindowOf(t))
    /\ ReturnedChunkIds = {i + 1 : i \in WindowOf(t)}
    /\ \A n \in DOMAIN extractor.fragments :
            extractor.fragments[n].content =
                extractor.chunks[extractor.fragments[n].metadata.chunk_id].content

C30_Original ==
    ExplanationDone =>
        /\ extractor.chunks = <<>> => extractor.fragments = <<>>
        /\ extractor.chunks # <<>> =>
            \A t \in {TargetIdx} :
                /\ FragmentsOfWindow(t)
                /\ Cardinality(Flagged) = 1
                /\ Descending(extractor.fragments)

C30_ExplanationWindow ==
    ExplanationDone =>
        /\ extractor.chunks = <<>> => extractor.fragments = <<>>
        /\ ExplanationRaises => extractor.fragments = <<>>
        /\ extractor.chunks # <<>> /\ ~ExplanationRaises =>
            \A t \in {TargetIdx} :
                /\ FragmentsOfWindow(t)
                /\ Descending(extractor.fragments)
                /\ IF extractor.size >= 0
                   THEN /\ Cardinality(Flagged) = 1
                        /\ \A n \in Flagged :
                                extractor.fragments[n].metadata.chunk_id = t + 1
                   ELSE extractor.fragments = <<>>

\* the target is the last of three chunks, found by resemblance, and the
\* window of size 1 leaves the first chunk out
C30_Witness ==
    /\ ExplanationDone
    /\ ~ExplanationRaises
    /\ Len(extractor.chunks) = 3
    /\ extractor.size = 1
    /\ TargetIdx = 2
    /\ ~InString(extractor.text, extractor.chunks[3].content)
    /\ ReturnedChunkIds = {2, 3}
    /\ Flagged # {}

\* no chunk contains or resembles the target: the first chunk is the target
C30_MostRelevantWitness ==
    /\ ExplanationDone
    /\ ~ExplanationRaises
    /\ Len(extractor.chunks) = 3
    /\ Found(extractor.text, extractor.chunks) = {}
    /\ extractor.size = 0
    /\ ReturnedChunkIds = {1}

\* window_size = -1: nothing comes back for a chunk list that is not empty
C30_NegativeWitness ==
    /\ ExplanationDone
    /\ ~ExplanationRaises
    /\ extractor.chunks # <<>>
    /\ extractor.size = -1
    /\ extractor.fragments = <<>>

\* a row without content next to the target: nothing comes back
C30_RaisesWitness ==
    /\ ExplanationDone
    /\ extractor.size = 1
    /\ Found(extractor.text, extractor.chunks) # {}
    /\ ~RaisesOn(extractor.chunks, {i + 1 : i \in ReadByLoop(extractor.text, extractor.chunks)})
    /\ ExplanationRaises
    /\ extractor.fragments = <<>>

\* no chunks at all
C30_EmptyWitness ==
    /\ ExplanationDone
    /\ extractor.chunks = <<>>
    /\ extractor.size = 1
    /\ extractor.fragments = <<>>

====
